---- MODULE Spec2Model ----
(***************************************************************************)
(* Model of market_makingv0.0.1.py: the option market-making loop, its     *)
(* quote lifecycle (update_quotes), the delta hedger                       *)
(* (hedge_delta_position) and the hedge-direction hysteresis flags.        *)
(*                                                                         *)
(* Units.  Prices, theoretical values and credits are integers in cents    *)
(* (0.10 is 10).  Deltas and the aggregate delta are integers in           *)
(* hundredths of a lot (20.01 is 2001).  stock_value is kept in half-cents *)
(* (best bid + best ask), so that the midpoint (bid + ask) / 2.0 stays an  *)
(* integer.  The venue (books, positions, fills) and the Black-Scholes     *)
(* library are external: their results are inputs drawn from small sets.   *)
(* Printing, the sleeps, the trade reports (poll_new_trades, last_bid,      *)
(* last_ask) and the unused names total_bid_volume / total_ask_volume of    *)
(* update_quotes change nothing the program reads and are left out.         *)
(*                                                                         *)
(* Three specifications.  Spec is the trade loop.  LimitSpec calls         *)
(* limit_maker_man alone on a grid of arguments.  QuoteSpec calls          *)
(* update_quotes alone, again and again, under every value of the flags.   *)
(***************************************************************************)
EXTENDS Integers, Sequences, FiniteSets, TLC

\* ------------------------------------------------------------------ bounds
NumOptions == 2          \* how many entries of OPTIONS are quoted
MaxQuotes == 4           \* how many calls of update_quotes are explored
MaxFills == 1            \* how many fills of resting orders the venue makes
MaxPrice == 100          \* largest argument limit_maker_man is called on

\* ------------------------------------------------------ program constants
GLOBAL_LIMIT == 100      \* default position_limit; the +-100 of the hedger
BASE_VOLUME == 10        \* volume=10 in the call of update_quotes
TICK_SIZE == 10          \* tick_size=0.10, in cents
NUDGE == 10              \* the 0.1 of the tie-break, in cents
EDGE == 10               \* the 0.1 subtracted in credit1, in cents
DEADBAND == 2000         \* the 20 of the hedging deadband, in hundredths
THRESHOLD == 80          \* the 80 of the hysteresis step
maxx == 100              \* maxx of limit_maker_man

STOCK_ID == "BMW"

\* The first entries of OPTIONS (id, strike, callput); strike in currency units.
ALL_OPTIONS ==
  << [id |-> "BMW-2021_12_10-050C", strike |-> 50, callput |-> "call"],
     [id |-> "BMW-2021_12_10-050P", strike |-> 50, callput |-> "put"],
     [id |-> "BMW-2022_01_14-050C", strike |-> 50, callput |-> "call"],
     [id |-> "BMW-2022_01_14-050P", strike |-> 50, callput |-> "put"] >>

OPTIONS == SubSeq(ALL_OPTIONS, 1, NumOptions)

OptIdx == 1..NumOptions

\* ------------------------------------------------------- external inputs
\* Books of the underlying: best-first price levels on each side (cents).
StockBooks ==
  { [bids |-> << >>,      asks |-> <<5010>>],
    [bids |-> <<4990>>,   asks |-> <<5010>>],
    [bids |-> <<5990>>,   asks |-> <<6010>>] }

\* Books read by hedge_delta_position: its touch prices only feed the pricing
\* library and the price of the order, so one book with both sides suffices.
HedgeBooks ==
  { [bids |-> << >>,      asks |-> <<5010>>],
    [bids |-> <<4990>>,   asks |-> <<5010>>] }

\* Books of an option: only the second level is read by the loop.
ThinBook ==
  [bids |-> <<[price |-> 990, volume |-> 5]>>,
   asks |-> <<[price |-> 1010, volume |-> 5]>>]

ThickBook ==
  [bids |-> <<[price |-> 990, volume |-> 5], [price |-> 985, volume |-> 5]>>,
   asks |-> <<[price |-> 1010, volume |-> 5], [price |-> 1020, volume |-> 5]>>]

\* What one pass sees for an option: the theoretical value returned by
\* calculate_theoretical_option_value (cents) and the option's book.
Markets ==
  { [theo |-> 1000, book |-> ThickBook],
    [theo |-> 5000, book |-> ThinBook],
    [theo |-> 5000, book |-> ThickBook] }

\* Deltas returned by calculate_option_delta (hundredths).
Deltas(callput) == IF callput = "call" THEN {1, 100} ELSE {-100, 0}

\* Positions the venue may report when the program starts: the underlying's,
\* that of every call and that of every put.
InitPositions ==
  { [stock |-> -80, call |-> 5, put |-> 85],
    [stock |-> 20, call |-> 1, put |-> 0],
    [stock |-> 100, call |-> -95, put |-> 95] }

\* ------------------------------------------------------------------ state
VARIABLES
  pc,                     \* "top" | "quote" | "hedge" | "hyst" | "crashed"
  idx,                    \* index in OPTIONS of the option the for-loop is at
  quotes,                 \* number of calls of update_quotes made so far
  force_delta_increase,   \* module global, line 18
  force_delta_decrease,   \* module global, line 19
  position,               \* the venue's position map: instrument id -> lots
  orders,                 \* the venue's outstanding orders: option id -> Seq
                          \* of [side, volume]; their prices are in lastQuote
  stock_value,            \* midpoint fetched at line 334, in half-cents
  positions_stock,        \* positions[STOCK_ID] of the map fetched at line 419
  credit,                 \* module-level name credit (lines 424-427)
  credit_def,             \* whether the name credit has been bound yet
  best_bid_vol_def,       \* whether the name best_bid_vol has been bound yet
  lastQuote,              \* the call of update_quotes the loop has just made
  lastHedge,              \* the call of hedge_delta_position just made
  lastHyst,               \* the last hysteresis step and the P it evaluated
  fills,                  \* number of fills of resting orders so far
  limit_call              \* a call of limit_maker_man on its own: arguments
                          \* and, once it has returned, the value returned

vars == << pc, idx, quotes, force_delta_increase, force_delta_decrease, position,
           orders, stock_value, positions_stock, credit, credit_def,
           best_bid_vol_def, lastQuote, lastHedge, lastHyst, fills,
           limit_call >>

OptionIds == { OPTIONS[i].id : i \in OptIdx }
Instruments == OptionIds \cup {STOCK_ID}

\* ------------------------------------------------------- pure functions
Min(a, b) == IF a < b THEN a ELSE b

\* Python's round(n / d, 0) for d > 0: nearest integer, ties to even.
RoundHalfEven(n, d) ==
  LET q == n \div d
      r == n % d
  IN  IF 2 * r < d THEN q
      ELSE IF 2 * r > d THEN q + 1
      ELSE IF q % 2 = 0 THEN q ELSE q + 1

\* Variant of limit_maker_man that always divides the strike by the
\* underlying's value.
limit_maker_man_no_swap(strike, stock) == RoundHalfEven(maxx * strike, stock)

\* limit_maker_man: both arguments in one (any) common unit.
limit_maker_man(strike, stock) ==
  IF strike <= stock
    THEN RoundHalfEven(maxx * strike, stock)
    ELSE RoundHalfEven(maxx * stock, strike)

trade_would_breach_position_limit(position_instrument, volume, side, position_limit) ==
  IF side = "bid"
    THEN position_instrument + volume > position_limit
    ELSE position_instrument - volume < -position_limit

round_down_to_tick(price, tick_size) == (price \div tick_size) * tick_size

round_up_to_tick(price, tick_size) == (-((-price) \div tick_size)) * tick_size

\* get_midpoint_value (lines 56-69): -1 stands for None; otherwise bid + ask (half-cents).
get_midpoint_value(order_book) ==
  IF order_book.bids = << >> \/ order_book.asks = << >>
    THEN -1
    ELSE order_book.bids[1] + order_book.asks[1]

\* ------------------------------------------------- update_quotes, in parts
\* Variant of old_volume that forgets the volume of the cancelled order.
old_volume_forgets(outstanding, side) == 0

\* The volume the loop of lines 143-150 leaves in old_<side>_volume: that of
\* the last outstanding order of the side, 0 when there is none.
old_volume(outstanding, side) ==
  LET S == { k \in 1..Len(outstanding) : outstanding[k].side = side }
  IN  IF S = {} THEN 0
      ELSE outstanding[CHOOSE k \in S : \A j \in S : j <= k].volume

\* Variant of delete_orders that deletes the asks only.
delete_orders_asks_only(outstanding) ==
  SelectSeq(outstanding, LAMBDA o : o.side = "bid")

\* Lines 145-151: every outstanding order of the option is deleted.
delete_orders(outstanding) == SelectSeq(outstanding, LAMBDA o : FALSE)

\* Lines 154-162: the two prices, with the coin-flip tie-break.
quote_prices(theoretical_price, cr, tick_size, coin_flip) ==
  LET bid_price == round_down_to_tick(theoretical_price - cr, tick_size)
      ask_price == round_up_to_tick(theoretical_price + cr, tick_size)
  IN  IF bid_price = ask_price
        THEN IF coin_flip = 0
               THEN [bid |-> bid_price + NUDGE, ask |-> ask_price]
               ELSE [bid |-> bid_price, ask |-> ask_price - NUDGE]
        ELSE [bid |-> bid_price, ask |-> ask_price]

\* random.randint(0, 1) is drawn only when the two prices are equal.
coin_flips(theoretical_price, cr, tick_size) ==
  IF round_down_to_tick(theoretical_price - cr, tick_size)
       = round_up_to_tick(theoretical_price + cr, tick_size)
    THEN {0, 1}
    ELSE {0}

\* Variant of quote_volume without the clamp to the headroom.
quote_volume_unclamped(volume, old_vol, headroom) == volume + old_vol

\* Lines 178-179.
quote_volume(volume, old_vol, headroom) == Min(volume + old_vol, headroom)

\* Lines 183/190: the pre-check of the bid is made with the base volume.
bid_allowed(pos, bid_volume, volume, position_limit) ==
  /\ bid_volume > 0
  /\ ~trade_would_breach_position_limit(pos, volume, "bid", position_limit)

\* Lines 186/193.
ask_allowed(pos, ask_volume, volume, position_limit) ==
  /\ ask_volume > 0
  /\ ~trade_would_breach_position_limit(pos, volume, "ask", position_limit)

\* Variant of bid_suppressed with the polarity of calls and puts exchanged.
bid_suppressed_swapped(callput, fdi, fdd) == IF callput = "call" THEN fdi ELSE fdd

\* Lines 182-195: which flag suppresses which side.
bid_suppressed(callput, fdi, fdd) == IF callput = "call" THEN fdd ELSE fdi

\* Variant of ask_suppressed in which either flag suppresses the ask.
ask_suppressed_either(callput, fdi, fdd) == fdi \/ fdd

ask_suppressed(callput, fdi, fdd) == IF callput = "call" THEN fdi ELSE fdd

\* update_quotes (lines 118-195) on the option's outstanding orders and
\* position: the orders left at the venue and a record of what was done.
update_quotes(callput, outstanding, pos, theoretical_price, cr, volume, position_limit, tick_size, coin_flip, fdi, fdd) ==
  LET old_bid_volume == old_volume(outstanding, "bid")
      old_ask_volume == old_volume(outstanding, "ask")
      kept == delete_orders(outstanding)
      px == quote_prices(theoretical_price, cr, tick_size, coin_flip)
      max_volume_to_buy == position_limit - pos
      max_volume_to_sell == position_limit + pos
      bid_volume == quote_volume(volume, old_bid_volume, max_volume_to_buy)
      ask_volume == quote_volume(volume, old_ask_volume, max_volume_to_sell)
      ins_bid == bid_allowed(pos, bid_volume, volume, position_limit)
                   /\ ~bid_suppressed(callput, fdi, fdd)
      ins_ask == ask_allowed(pos, ask_volume, volume, position_limit)
                   /\ ~ask_suppressed(callput, fdi, fdd)
      with_bid == IF ins_bid
                    THEN Append(kept, [side |-> "bid", volume |-> bid_volume])
                    ELSE kept
      with_ask == IF ins_ask
                    THEN Append(with_bid, [side |-> "ask", volume |-> ask_volume])
                    ELSE with_bid
  IN  [ orders |-> with_ask,
        old_bid_volume |-> old_bid_volume, old_ask_volume |-> old_ask_volume,
        bid_price |-> px.bid, ask_price |-> px.ask,
        bid_volume |-> bid_volume, ask_volume |-> ask_volume,
        bid_inserted |-> ins_bid, ask_inserted |-> ins_ask ]

\* ------------------------------------------- credit estimation, lines 388-427
intrinsic_credit(theoretical_value, strike) ==
  IF theoretical_value > strike THEN theoretical_value - strike - EDGE
  ELSE IF theoretical_value < strike THEN strike - theoretical_value - EDGE
  ELSE 0

book_is_thin(book) == Len(book.bids) < 2 \/ Len(book.asks) < 2

market_credit(theoretical_value, book) ==
  IF book_is_thin(book) THEN 0
  ELSE LET best_bid == book.bids[2].price
           best_ask == book.asks[2].price
           diff_bid == IF theoretical_value > best_bid
                         THEN theoretical_value - best_bid
                         ELSE best_bid - theoretical_value
           diff_ask == IF theoretical_value < best_ask
                         THEN best_ask - theoretical_value
                         ELSE theoretical_value - best_ask
       IN  IF diff_bid < diff_ask THEN diff_bid ELSE diff_ask

\* Lines 424-427: the name credit is rebound only when the bounds differ.
credit_rebound(credit1, credit2) == credit1 > credit2 \/ credit1 < credit2

new_credit(credit1, credit2, old) ==
  IF credit1 > credit2 THEN credit2
  ELSE IF credit1 < credit2 THEN credit1
  ELSE old

\* --------------------------------------- hedge_delta_position, in parts
\* Lines 216-246: the sum over the options of option_delta * position, with
\* d[i] the delta the pricing library returns for OPTIONS[i] (hundredths).
RECURSIVE total_delta_position(_, _, _)
total_delta_position(d, pos, n) ==
  IF n = 0 THEN 0
  ELSE total_delta_position(d, pos, n - 1) + d[n] * pos[OPTIONS[n].id]

\* Variant of hedge_size that sells when the candidate size is negative and
\* buys when it is not.
hedge_size_wrong_side(total_delta, stock_position) ==
  LET volume == RoundHalfEven(total_delta, 100) + stock_position
  IN  IF volume >= 0
        THEN [side |-> "bid", volume |-> Min(volume, GLOBAL_LIMIT - stock_position)]
        ELSE [side |-> "ask", volume |-> Min(-volume, GLOBAL_LIMIT + stock_position)]

\* Lines 254-271: candidate size, side and the clamp at +-100.
hedge_size(total_delta, stock_position) ==
  LET volume == RoundHalfEven(total_delta, 100) + stock_position
  IN  IF volume >= 0
        THEN LET stock_position_after == stock_position - volume
             IN  [ side |-> "ask",
                   volume |-> IF stock_position_after < -GLOBAL_LIMIT
                                THEN volume - (-GLOBAL_LIMIT - stock_position_after)
                                ELSE volume ]
        ELSE LET v == -volume
                 stock_position_after == stock_position + v
             IN  [ side |-> "bid",
                   volume |-> IF stock_position_after > GLOBAL_LIMIT
                                THEN v - (stock_position_after - GLOBAL_LIMIT)
                                ELSE v ]

\* Variant of outside_deadband with the boundary included.
outside_deadband_inclusive(net) == net >= DEADBAND \/ net <= -DEADBAND

\* Variant of outside_deadband that forgets the negative side.
outside_deadband_one_sided(net) == net > DEADBAND

\* Line 277: the deadband test on delta_pos + stock_position (hundredths).
outside_deadband(net) == net > DEADBAND \/ net < -DEADBAND

\* Variant of hedge_allowed without the test volume != 0.
hedge_allowed_zero(stock_position, volume, side) ==
  ~trade_would_breach_position_limit(stock_position, volume, side, GLOBAL_LIMIT)

\* Line 279: the last test before the order is sent.
hedge_allowed(stock_position, volume, side) ==
  /\ ~trade_would_breach_position_limit(stock_position, volume, side, GLOBAL_LIMIT)
  /\ volume # 0

\* Variant of hysteresis_step whose last branch clears force_delta_increase
\* only below the upper threshold.
hysteresis_step_keep_increase(stock_position, fdi, fdd) ==
  LET a == IF stock_position >= THRESHOLD
             THEN [inc |-> TRUE, dec |-> fdd]
             ELSE IF stock_position <= THRESHOLD
               THEN [inc |-> fdi, dec |-> FALSE]
               ELSE [inc |-> fdi, dec |-> fdd]
  IN  IF stock_position <= -THRESHOLD
        THEN [inc |-> a.inc, dec |-> TRUE]
        ELSE IF stock_position >= -THRESHOLD /\ stock_position < THRESHOLD
          THEN [inc |-> FALSE, dec |-> a.dec]
          ELSE a

\* ------------------------------------------- hysteresis step, lines 450-463
hysteresis_step(stock_position, fdi, fdd) ==
  LET a == IF stock_position >= THRESHOLD
             THEN [inc |-> TRUE, dec |-> fdd]
             ELSE IF stock_position <= THRESHOLD
               THEN [inc |-> fdi, dec |-> FALSE]
               ELSE [inc |-> fdi, dec |-> fdd]
  IN  IF stock_position <= -THRESHOLD
        THEN [inc |-> a.inc, dec |-> TRUE]
        ELSE IF stock_position >= -THRESHOLD
          THEN [inc |-> FALSE, dec |-> a.dec]
          ELSE a

\* ------------------------------------------------------------------ Init
NoQuote ==
  [ valid |-> FALSE, idx |-> 1, callput |-> "call", theo |-> 0,
    credit |-> 0, credit1 |-> 0, credit2 |-> 0, position |-> 0,
    position_limit |-> 0, fdi |-> FALSE, fdd |-> FALSE,
    old_bid_volume |-> 0, old_ask_volume |-> 0, bid_price |-> 0, ask_price |-> 0,
    bid_volume |-> 0, ask_volume |-> 0, bid_inserted |-> FALSE,
    ask_inserted |-> FALSE ]

NoHedge ==
  [ valid |-> FALSE, book_ok |-> FALSE, total_delta |-> 0,
    stock_position |-> 0, net |-> 0, side |-> "ask", volume |-> 0,
    submitted |-> FALSE, filled |-> 0 ]

NoHyst == [ valid |-> FALSE, P |-> 0 ]

\* No call of limit_maker_man on its own is under way.
NoLimitCall ==
  [ strike |-> 0, stock_value |-> 0, returned |-> FALSE, option_limit |-> 0 ]

Init ==
  /\ pc = "top"
  /\ idx = 1
  /\ quotes = 0
  /\ force_delta_increase = FALSE
  /\ force_delta_decrease = FALSE
  /\ \E p \in InitPositions :
       position = [ i \in Instruments |->
                      IF i = STOCK_ID THEN p.stock
                      ELSE IF \E k \in OptIdx : OPTIONS[k].id = i
                                                  /\ OPTIONS[k].callput = "call"
                        THEN p.call
                        ELSE p.put ]
  /\ orders = [ o \in OptionIds |-> << >> ]
  /\ stock_value = 0
  /\ positions_stock = 0
  /\ credit = 0
  /\ credit_def = FALSE
  /\ best_bid_vol_def = FALSE
  /\ lastQuote = NoQuote
  /\ lastHedge = NoHedge
  /\ lastHyst = NoHyst
  /\ fills = 0
  /\ limit_call = NoLimitCall

\* --------------------------------------------------------------- actions
\* Variant of FetchMidpoint that goes on to quote the options whatever the
\* midpoint is.
FetchMidpoint_no_skip ==
  /\ pc = "top"
  /\ \E book \in StockBooks : stock_value' = get_midpoint_value(book)
  /\ pc' = "quote"
  /\ idx' = 1
  /\ UNCHANGED limit_call
  /\ UNCHANGED << quotes, force_delta_increase, force_delta_decrease, position, orders,
                  positions_stock, credit, credit_def, best_bid_vol_def,
                  lastQuote, lastHedge, lastHyst, fills >>

\* Variant of FetchMidpoint that starts every pass with both flags false, as
\* if they were names local to the pass.
FetchMidpoint_resets_flags ==
  /\ pc = "top"
  /\ \E book \in StockBooks :
       LET m == get_midpoint_value(book)
       IN  /\ stock_value' = m
           /\ IF m = -1
                THEN /\ pc' = "top"
                     /\ idx' = idx
                ELSE /\ pc' = "quote"
                     /\ idx' = 1
  /\ force_delta_increase' = FALSE
  /\ force_delta_decrease' = FALSE
  /\ UNCHANGED limit_call
  /\ UNCHANGED << quotes, position, orders,
                  positions_stock, credit, credit_def, best_bid_vol_def,
                  lastQuote, lastHedge, lastHyst, fills >>

\* Lines 328-339: a pass of the loop starts; an underlying book with an empty
\* side makes it `continue`.
FetchMidpoint ==
  /\ pc = "top"
  /\ \E book \in StockBooks :
       LET m == get_midpoint_value(book)
       IN  /\ stock_value' = m
           /\ IF m = -1
                THEN /\ pc' = "top"
                     /\ idx' = idx
                ELSE /\ pc' = "quote"
                     /\ idx' = 1
  /\ UNCHANGED limit_call
  /\ UNCHANGED << quotes, force_delta_increase, force_delta_decrease, position, orders,
                  positions_stock, credit, credit_def, best_bid_vol_def,
                  lastQuote, lastHedge, lastHyst, fills >>

\* Lines 341-441 for one option: limit, theoretical value, credit, quotes.
QuoteOption ==
  /\ pc = "quote"
  /\ quotes < MaxQuotes
  /\ quotes' = quotes + 1
  /\ \E mkt \in Markets :
       LET V == mkt.theo
           book == mkt.book
           option == OPTIONS[idx]
           strike == option.strike * 100
           option_limit == limit_maker_man(2 * strike, stock_value)
           credit1 == intrinsic_credit(V, strike)
           credit2 == market_credit(V, book)
           cr == new_credit(credit1, credit2, credit)
           pos == position[option.id]
       IN
       \E coin_flip \in coin_flips(V, cr, TICK_SIZE) :
       LET q == update_quotes(option.callput, orders[option.id], pos, V, cr,
                              BASE_VOLUME, option_limit, TICK_SIZE, coin_flip,
                              force_delta_increase, force_delta_decrease)
       IN  /\ best_bid_vol_def \/ ~book_is_thin(book)
           /\ credit_def \/ credit_rebound(credit1, credit2)
           /\ best_bid_vol_def' = TRUE
           /\ credit_def' = TRUE
           /\ credit' = cr
           /\ positions_stock' = position[STOCK_ID]
           /\ orders' = [orders EXCEPT ![option.id] = q.orders]
           /\ lastQuote' =
                [ valid |-> TRUE, idx |-> idx,
                  callput |-> option.callput, theo |-> V, credit |-> cr,
                  credit1 |-> credit1, credit2 |-> credit2, position |-> pos,
                  position_limit |-> option_limit,
                  fdi |-> force_delta_increase, fdd |-> force_delta_decrease,
                  old_bid_volume |-> q.old_bid_volume,
                  old_ask_volume |-> q.old_ask_volume,
                  bid_price |-> q.bid_price, ask_price |-> q.ask_price,
                  bid_volume |-> q.bid_volume, ask_volume |-> q.ask_volume,
                  bid_inserted |-> q.bid_inserted,
                  ask_inserted |-> q.ask_inserted ]
  /\ IF idx < NumOptions
       THEN /\ idx' = idx + 1
            /\ pc' = "quote"
       ELSE /\ idx' = idx
            /\ pc' = "hedge"
  /\ UNCHANGED limit_call
  /\ UNCHANGED << force_delta_increase, force_delta_decrease, position,
                  stock_value, lastHedge, lastHyst, fills >>

\* Lines 422 and 435: reading the name best_bid_vol, or the name credit,
\* before it was ever bound raises NameError and ends the program.
QuoteNameError ==
  /\ pc = "quote"
  /\ quotes < MaxQuotes
  /\ \E mkt \in Markets :
       LET V == mkt.theo
           book == mkt.book
           strike == OPTIONS[idx].strike * 100
           credit1 == intrinsic_credit(V, strike)
           credit2 == market_credit(V, book)
           bound == best_bid_vol_def \/ ~book_is_thin(book)
       IN  /\ ~bound \/ ~(credit_def \/ credit_rebound(credit1, credit2))
           /\ best_bid_vol_def' = bound
  /\ positions_stock' = position[STOCK_ID]
  /\ pc' = "crashed"
  /\ UNCHANGED limit_call
  /\ UNCHANGED << idx, quotes, force_delta_increase, force_delta_decrease,
                  position, orders, stock_value, credit, credit_def,
                  lastHedge, lastHyst, fills >>
  /\ lastQuote' = NoQuote

\* The deltas the pricing library returns in one call of hedge_delta_position;
\* it is not called when the book has an empty side (line 219).
DeltaInputs(book) ==
  IF book.bids = << >> \/ book.asks = << >>
    THEN { [i \in OptIdx |-> 0] }
    ELSE { d \in [OptIdx -> Deltas("call") \cup Deltas("put")] :
             \A i \in OptIdx : d[i] \in Deltas(OPTIONS[i].callput) }

\* Line 448, hedge_delta_position (lines 198-292).  An order that is sent is
\* immediate-or-cancel: the venue fills none, part or all of it at once.
Hedge ==
  /\ pc = "hedge"
  /\ \E book \in HedgeBooks :
     \E d \in DeltaInputs(book) :
       /\ LET stock_position == position[STOCK_ID]
              total == total_delta_position(d, position, NumOptions)
              net == total + 100 * stock_position
              h == hedge_size(total, stock_position)
              book_ok == book.bids # << >> /\ book.asks # << >>
              submit == /\ book_ok
                        /\ outside_deadband(net)
                        /\ hedge_allowed(stock_position, h.volume, h.side)
          IN  \E filled \in IF submit THEN {0, 1, h.volume} ELSE {0} :
                /\ filled <= h.volume \/ ~submit
                /\ position' =
                     [position EXCEPT ![STOCK_ID] =
                        IF h.side = "ask" THEN @ - filled ELSE @ + filled]
                /\ lastHedge' =
                     [ valid |-> TRUE, book_ok |-> book_ok,
                       total_delta |-> IF book_ok THEN total ELSE 0,
                       stock_position |-> stock_position,
                       net |-> IF book_ok THEN net ELSE 0,
                       side |-> IF book_ok THEN h.side ELSE "ask",
                       volume |-> IF book_ok THEN h.volume ELSE 0,
                       submitted |-> submit, filled |-> filled ]
  /\ pc' = "hyst"
  /\ UNCHANGED limit_call
  /\ UNCHANGED << idx, quotes, force_delta_increase, force_delta_decrease, orders,
                  stock_value, positions_stock, credit, credit_def,
                  best_bid_vol_def, lastHyst, fills >>
  /\ lastQuote' = NoQuote

\* Lines 450-463: the flags are updated from positions[STOCK_ID], the map
\* fetched at line 419 while the last option was being quoted.
Hysteresis ==
  /\ pc = "hyst"
  /\ LET f == hysteresis_step(positions_stock, force_delta_increase,
                              force_delta_decrease)
     IN  /\ force_delta_increase' = f.inc
         /\ force_delta_decrease' = f.dec
  /\ lastHyst' = [ valid |-> TRUE, P |-> positions_stock ]
  /\ pc' = "top"
  /\ UNCHANGED limit_call
  /\ UNCHANGED << idx, quotes, position, orders, stock_value, positions_stock,
                  credit, credit_def, best_bid_vol_def, lastQuote, fills >>
  /\ lastHedge' = NoHedge

\* The venue fills a resting order of the strategy, in part (one lot) or whole.
\* A fill commutes with the quoting of the other options and with the
\* hysteresis step; it is taken between two passes, where the loop sleeps
\* for a second (line 465).
Fill ==
  /\ pc = "top"
  /\ fills < MaxFills
  /\ fills' = fills + 1
  /\ \E o \in OptionIds :
     \E k \in 1..Len(orders[o]) :
     \E f \in {1, orders[o][k].volume} :
       LET ord == orders[o][k]
           rest == [ord EXCEPT !.volume = @ - f]
       IN  /\ orders' =
                [orders EXCEPT ![o] =
                   IF rest.volume = 0
                     THEN SubSeq(@, 1, k - 1) \o SubSeq(@, k + 1, Len(@))
                     ELSE [@ EXCEPT ![k] = rest]]
           /\ position' =
                [position EXCEPT ![o] = IF ord.side = "bid" THEN @ + f ELSE @ - f]
  /\ UNCHANGED limit_call
  /\ UNCHANGED << pc, idx, quotes, force_delta_increase, force_delta_decrease,
                  stock_value, positions_stock, credit, credit_def,
                  best_bid_vol_def, lastQuote, lastHedge, lastHyst >>

Next ==
  \/ FetchMidpoint
  \/ QuoteOption
  \/ QuoteNameError
  \/ Hedge
  \/ Hysteresis
  \/ Fill

Spec == Init /\ [][Next]_vars

TypeOK ==
  /\ pc \in {"top", "quote", "hedge", "hyst", "crashed"}
  /\ idx \in OptIdx
  /\ quotes \in 0..MaxQuotes
  /\ force_delta_increase \in BOOLEAN
  /\ force_delta_decrease \in BOOLEAN
  /\ \A i \in Instruments : position[i] \in Int

\* ------------------------------------------- limit_maker_man on its own
\* limit_maker_man (lines 22-28) called on every pair of positive arguments
\* up to MaxPrice, both in one unit; the trade loop does not run.
LoopNotStarted ==
  /\ pc = "top"
  /\ idx = 1
  /\ quotes = 0
  /\ force_delta_increase = FALSE
  /\ force_delta_decrease = FALSE
  /\ position = [ i \in Instruments |-> 0 ]
  /\ orders = [ o \in OptionIds |-> << >> ]
  /\ stock_value = 0
  /\ positions_stock = 0
  /\ credit = 0
  /\ credit_def = FALSE
  /\ best_bid_vol_def = FALSE
  /\ lastQuote = NoQuote
  /\ lastHedge = NoHedge
  /\ lastHyst = NoHyst
  /\ fills = 0

LimitInit ==
  /\ LoopNotStarted
  /\ \E strike \in 1..MaxPrice :
     \E underlying \in 1..MaxPrice :
       limit_call = [ strike |-> strike, stock_value |-> underlying,
                      returned |-> FALSE, option_limit |-> 0 ]

\* Line 367: option_limit = limit_maker_man(option['strike'], stock_value).
CallLimitMakerMan ==
  /\ ~limit_call.returned
  /\ limit_call' =
       [limit_call EXCEPT
          !.returned = TRUE,
          !.option_limit = limit_maker_man(limit_call.strike,
                                           limit_call.stock_value)]
  /\ UNCHANGED << pc, idx, quotes, force_delta_increase, force_delta_decrease,
                  position, orders, stock_value, positions_stock, credit,
                  credit_def, best_bid_vol_def, lastQuote, lastHedge, lastHyst,
                  fills >>

LimitNext == CallLimitMakerMan

LimitSpec == LimitInit /\ [][LimitNext]_vars

\* --------------------------------------------- update_quotes on its own
\* update_quotes (lines 118-195) called again and again on the options, with
\* any values of the two module flags and no fill, hedge or flag update
\* between the calls.

\* The values line 367 can pass as position_limit.
QuoteLimits ==
  { limit_maker_man(2 * OPTIONS[i].strike * 100, get_midpoint_value(b)) :
      i \in OptIdx, b \in { x \in StockBooks : get_midpoint_value(x) # -1 } }

\* Theoretical price and credit of a call of update_quotes (cents).
QuotePrices == { [theo |-> 1000, credit |-> 15], [theo |-> 5000, credit |-> 0] }

QuoteInit ==
  /\ pc = "quote"
  /\ idx = 1
  /\ quotes = 0
  /\ force_delta_increase \in BOOLEAN
  /\ force_delta_decrease \in BOOLEAN
  /\ \E p \in InitPositions :
       position = [ i \in Instruments |->
                      IF i = STOCK_ID THEN p.stock
                      ELSE IF \E k \in OptIdx : OPTIONS[k].id = i
                                                  /\ OPTIONS[k].callput = "call"
                        THEN p.call
                        ELSE p.put ]
  /\ orders = [ o \in OptionIds |-> << >> ]
  /\ stock_value = 0
  /\ positions_stock = 0
  /\ credit = 0
  /\ credit_def = FALSE
  /\ best_bid_vol_def = FALSE
  /\ lastQuote = NoQuote
  /\ lastHedge = NoHedge
  /\ lastHyst = NoHyst
  /\ fills = 0
  /\ limit_call = NoLimitCall

CallUpdateQuotes ==
  /\ quotes < MaxQuotes
  /\ quotes' = quotes + 1
  /\ \E i \in OptIdx :
     \E position_limit \in QuoteLimits :
     \E px \in QuotePrices :
     \E coin_flip \in coin_flips(px.theo, px.credit, TICK_SIZE) :
       LET option == OPTIONS[i]
           pos == position[option.id]
           q == update_quotes(option.callput, orders[option.id], pos, px.theo,
                              px.credit, BASE_VOLUME, position_limit, TICK_SIZE,
                              coin_flip, force_delta_increase,
                              force_delta_decrease)
       IN  /\ idx' = i
           /\ orders' = [orders EXCEPT ![option.id] = q.orders]
           /\ lastQuote' =
                [ valid |-> TRUE, idx |-> i,
                  callput |-> option.callput, theo |-> px.theo,
                  credit |-> px.credit, credit1 |-> px.credit,
                  credit2 |-> px.credit, position |-> pos,
                  position_limit |-> position_limit,
                  fdi |-> force_delta_increase, fdd |-> force_delta_decrease,
                  old_bid_volume |-> q.old_bid_volume,
                  old_ask_volume |-> q.old_ask_volume,
                  bid_price |-> q.bid_price, ask_price |-> q.ask_price,
                  bid_volume |-> q.bid_volume, ask_volume |-> q.ask_volume,
                  bid_inserted |-> q.bid_inserted,
                  ask_inserted |-> q.ask_inserted ]
  /\ UNCHANGED << pc, force_delta_increase, force_delta_decrease, position,
                  stock_value, positions_stock, credit, credit_def,
                  best_bid_vol_def, lastHedge, lastHyst, fills, limit_call >>

QuoteNext == CallUpdateQuotes

QuoteSpec == QuoteInit /\ [][QuoteNext]_vars

\* ----------------------------------------------------- properties of Spec
\* lastQuote is valid exactly in the states that follow a call of
\* update_quotes, up to the next hedge; such a call was made after the
\* hysteresis step lastHyst describes.  lastHedge is valid in the state that
\* follows a call of hedge_delta_position.

BidsOf(o) == { k \in 1..Len(orders[o]) : orders[o][k].side = "bid" }
AsksOf(o) == { k \in 1..Len(orders[o]) : orders[o][k].side = "ask" }

\* C1: with no hysteresis flag set, whenever the position is below
\* position_limit a bid of size min(base_volume + old_bid_vol,
\* position_limit - position) is inserted, and whenever it is above
\* -position_limit an ask of size min(base_volume + old_ask_vol,
\* position_limit + position) is inserted.
C1_ClampedQuoteInserted ==
  (lastQuote.valid /\ ~lastQuote.fdi /\ ~lastQuote.fdd) =>
    /\ lastQuote.position < lastQuote.position_limit =>
         /\ lastQuote.bid_inserted
         /\ lastQuote.bid_volume =
              Min(BASE_VOLUME + lastQuote.old_bid_volume,
                  lastQuote.position_limit - lastQuote.position)
    /\ lastQuote.position > -lastQuote.position_limit =>
         /\ lastQuote.ask_inserted
         /\ lastQuote.ask_volume =
              Min(BASE_VOLUME + lastQuote.old_ask_volume,
                  lastQuote.position_limit + lastQuote.position)

\* C2: the bid price and the ask price update_quotes submits never satisfy
\* bid > ask, and for theo = 10.00 and credit = 0.15 they are 9.80 and 10.20.
C2_NeverCrossed ==
  lastQuote.valid =>
    /\ lastQuote.bid_price <= lastQuote.ask_price
    /\ (lastQuote.theo = 1000 /\ lastQuote.credit = 15) =>
         (lastQuote.bid_price = 980 /\ lastQuote.ask_price = 1020)

\* C3: once a hysteresis step has evaluated P >= 80, force_delta_increase is
\* set and every later update_quotes call inserts no ask for a call and no
\* bid for a put, until a hysteresis step clears the flag.
C3_IncreaseSuppresses ==
  (lastHyst.valid /\ lastHyst.P >= THRESHOLD) =>
    /\ force_delta_increase
    /\ lastQuote.valid =>
         /\ lastQuote.callput = "call" => ~lastQuote.ask_inserted
         /\ lastQuote.callput = "put" => ~lastQuote.bid_inserted

\* C4: once a hysteresis step has evaluated P <= -80, force_delta_decrease is
\* true at the end of the step and every update_quotes call made before the
\* next step inserts no bid for a call and no ask for a put.
C4_DecreaseSuppresses ==
  (lastHyst.valid /\ lastHyst.P <= -THRESHOLD) =>
    /\ force_delta_decrease
    /\ lastQuote.valid =>
         LET o == OPTIONS[lastQuote.idx]
         IN  /\ lastQuote.fdd
             /\ o.callput = "call" =>
                  (~lastQuote.bid_inserted /\ BidsOf(o.id) = {})
             /\ o.callput = "put" =>
                  (~lastQuote.ask_inserted /\ AsksOf(o.id) = {})

\* C4 witness: after a step that evaluated P <= -80, a call is quoted whose
\* bid passes the volume and position-limit tests, and no bid is inserted.
C4_Witness ==
  /\ lastHyst.valid /\ lastHyst.P <= -THRESHOLD
  /\ lastQuote.valid /\ lastQuote.callput = "call"
  /\ bid_allowed(lastQuote.position, lastQuote.bid_volume, BASE_VOLUME,
                 lastQuote.position_limit)
  /\ ~lastQuote.bid_inserted
  /\ lastQuote.ask_inserted

\* C5: hedge_delta_position submits no order whenever
\* total_delta + underlying_position lies in [-20, 20], bounds included.
C5_NoHedgeInsideDeadband ==
  (lastHedge.valid /\ lastHedge.book_ok
     /\ lastHedge.net >= -DEADBAND /\ lastHedge.net <= DEADBAND) =>
    /\ ~lastHedge.submitted
    /\ position[STOCK_ID] = lastHedge.stock_position

\* C5 witness: a net exposure of exactly 20 with a non-zero candidate size.
C5_Witness ==
  /\ lastHedge.valid /\ lastHedge.book_ok
  /\ lastHedge.net = DEADBAND
  /\ lastHedge.volume # 0
  /\ ~lastHedge.submitted

\* C6 (as stated): whenever the underlying book has both sides and the net
\* exposure lies strictly outside [-20, 20], a hedge order is submitted.
C6_AlwaysHedgesOutsideDeadband ==
  (lastHedge.valid /\ lastHedge.book_ok
     /\ (lastHedge.net > DEADBAND \/ lastHedge.net < -DEADBAND)) =>
    lastHedge.submitted

\* C6 (amended): with both sides in the book and the net exposure strictly
\* outside [-20, 20], a hedge order of positive size is submitted unless the
\* underlying position is -100 with exposure above 20, or 100 with exposure
\* below -20, where the clamp at +-100 leaves a size of zero.
C6_HedgesUnlessAtLimit ==
  (lastHedge.valid /\ lastHedge.book_ok
     /\ (lastHedge.net > DEADBAND \/ lastHedge.net < -DEADBAND)) =>
    IF \/ lastHedge.stock_position = -GLOBAL_LIMIT /\ lastHedge.net > DEADBAND
       \/ lastHedge.stock_position = GLOBAL_LIMIT /\ lastHedge.net < -DEADBAND
      THEN ~lastHedge.submitted /\ lastHedge.volume = 0
      ELSE lastHedge.submitted /\ lastHedge.volume > 0

\* C6 witness: a net exposure of 20.01 and an order submitted.
C6_Witness ==
  /\ lastHedge.valid /\ lastHedge.book_ok
  /\ lastHedge.net = DEADBAND + 1
  /\ lastHedge.submitted

\* C7: the underlying position stays within [-100, 100], and any hedge order
\* submitted has a strictly positive volume v with P - v >= -100 on the ask
\* side and P + v <= 100 on the bid side.
C7_HedgeKeepsLimit ==
  /\ position[STOCK_ID] >= -GLOBAL_LIMIT
  /\ position[STOCK_ID] <= GLOBAL_LIMIT
  /\ lastHedge.submitted =>
       /\ lastHedge.volume > 0
       /\ lastHedge.filled <= lastHedge.volume
       /\ lastHedge.side = "ask" =>
            lastHedge.stock_position - lastHedge.volume >= -GLOBAL_LIMIT
       /\ lastHedge.side = "bid" =>
            lastHedge.stock_position + lastHedge.volume <= GLOBAL_LIMIT

\* C7 witness: a hedge order whose size the clamp has reduced fills whole and
\* takes the underlying position to the limit.
C7_Witness ==
  /\ lastHedge.submitted
  /\ lastHedge.filled = lastHedge.volume
  /\ lastHedge.side = "bid"
  /\ lastHedge.volume <
       -(RoundHalfEven(lastHedge.total_delta, 100) + lastHedge.stock_position)
  /\ position[STOCK_ID] = GLOBAL_LIMIT

\* C8: every option has at most one resting bid and at most one resting ask.
C8_OneOrderPerSide ==
  \A o \in OptionIds :
    /\ Cardinality(BidsOf(o)) <= 1
    /\ Cardinality(AsksOf(o)) <= 1

\* C8 witness: after a fill, update_quotes has cancelled a resting bid and a
\* resting ask of an option and inserted a new bid and a new ask.
C8_Witness ==
  /\ fills > 0
  /\ lastQuote.valid
  /\ lastQuote.old_bid_volume > 0 /\ lastQuote.old_ask_volume > 0
  /\ lastQuote.bid_inserted /\ lastQuote.ask_inserted
  /\ Len(orders[OPTIONS[lastQuote.idx].id]) = 2

C10_CreditIsMin ==
  lastQuote.valid =>
    lastQuote.credit = Min(lastQuote.credit1, lastQuote.credit2)

\* C11: the hysteresis step evaluates the underlying position as it is after
\* the hedge of the same pass: the value a step has evaluated is the
\* underlying position the hedge left.
C11_HysteresisSeesHedgedPosition ==
  (lastHyst.valid /\ pc # "hyst") => lastHyst.P = position[STOCK_ID]

\* C12: whatever the order books hold, a thin option book in the very first
\* pass included, the pass computes a credit and quotes the option; the
\* program never ends on an unhandled error.
C12_NoUnhandledError == pc # "crashed"

\* C14: when the rounded bid equals the rounded ask, the tie-break moves
\* exactly one of the two prices by one tick and the quote submitted has its
\* bid strictly below its ask, whichever way the coin falls.
C14_TieBreakUncrossed ==
  LET bid_price == round_down_to_tick(lastQuote.theo - lastQuote.credit, TICK_SIZE)
      ask_price == round_up_to_tick(lastQuote.theo + lastQuote.credit, TICK_SIZE)
  IN  (lastQuote.valid /\ bid_price = ask_price) =>
        /\ \/ lastQuote.bid_price # bid_price /\ lastQuote.ask_price = ask_price
           \/ lastQuote.bid_price = bid_price /\ lastQuote.ask_price # ask_price
        /\ lastQuote.bid_price < lastQuote.ask_price

\* C15: after a hysteresis step that evaluated P with -80 < P <= 80,
\* force_delta_decrease is false whatever it was before; at P = 80 exactly
\* the step both sets force_delta_increase and clears force_delta_decrease.
C15_MidBandClearsDecrease ==
  (lastHyst.valid /\ lastHyst.P <= THRESHOLD /\ lastHyst.P > -THRESHOLD) =>
    /\ ~force_delta_decrease
    /\ lastHyst.P = THRESHOLD => force_delta_increase

\* C16: for every option, position + resting bid volume <= 100 and
\* position - resting ask volume >= -100, so the option position stays within
\* [-100, 100] whatever quote updates and fills happen.
C16_RestingWithinGlobalLimit ==
  \A o \in OptionIds :
    /\ \A k \in BidsOf(o) : position[o] + orders[o][k].volume <= GLOBAL_LIMIT
    /\ \A k \in AsksOf(o) : position[o] - orders[o][k].volume >= -GLOBAL_LIMIT
    /\ position[o] >= -GLOBAL_LIMIT
    /\ position[o] <= GLOBAL_LIMIT

\* C16 witness: after a fill, a bid rests whose complete execution would take
\* the option's position to exactly 100.
C16_Witness ==
  /\ fills > 0
  /\ \E o \in OptionIds :
     \E k \in BidsOf(o) :
       /\ orders[o][k].volume > 0
       /\ position[o] + orders[o][k].volume = GLOBAL_LIMIT

\* C18: after a hedge order that the clamp at +-100 did not reduce and that
\* fills completely, |total_delta + underlying_position| <= 0.5, so a hedge
\* call with the same option positions and deltas would submit no order; the
\* order was an ask when the candidate size was >= 0 and a bid otherwise.
C18_FullHedgeFlattens ==
  LET candidate == RoundHalfEven(lastHedge.total_delta, 100)
                     + lastHedge.stock_position
      unclamped == lastHedge.volume = (IF candidate >= 0 THEN candidate
                                       ELSE -candidate)
      net_after == lastHedge.total_delta + 100 * position[STOCK_ID]
  IN  (lastHedge.valid /\ lastHedge.submitted /\ unclamped
         /\ lastHedge.filled = lastHedge.volume) =>
        /\ lastHedge.side = (IF candidate >= 0 THEN "ask" ELSE "bid")
        /\ net_after <= 50 /\ net_after >= -50
        /\ ~outside_deadband(net_after)

\* C18 witness: an unclamped hedge buy of more than one lot fills whole and
\* leaves a net exposure that is not zero.
C18_Witness ==
  /\ lastHedge.valid /\ lastHedge.submitted
  /\ lastHedge.side = "bid"
  /\ lastHedge.volume > 1
  /\ lastHedge.filled = lastHedge.volume
  /\ lastHedge.volume =
       -(RoundHalfEven(lastHedge.total_delta, 100) + lastHedge.stock_position)
  /\ lastHedge.total_delta + 100 * position[STOCK_ID] # 0

\* C20: a pass that finds the underlying's book empty on a side at the
\* midpoint fetch cancels no order, inserts no quote, sends no hedge, leaves
\* both flags as they are and goes back to the top of the loop; and
\* hedge_delta_position called on such a book submits no order.
C20_EmptyBookSkips ==
  [][ /\ (pc = "top" /\ fills' = fills /\ stock_value' = -1) =>
           /\ pc' = "top"
           /\ UNCHANGED << orders, position, quotes, force_delta_increase,
                           force_delta_decrease, lastQuote, lastHedge, lastHyst >>
      /\ (pc = "hedge" /\ pc' = "hyst" /\ ~lastHedge'.book_ok) =>
           /\ ~lastHedge'.submitted
           /\ UNCHANGED << orders, position, force_delta_increase,
                           force_delta_decrease >> ]_vars

\* C20 witness: the loop is back at its top after a pass skipped on an empty
\* underlying book, with the quotes of an earlier pass still resting.
C20_Witness ==
  /\ pc = "top"
  /\ stock_value = -1
  /\ lastHyst.valid
  /\ \E o \in OptionIds : orders[o] # << >>

\* C21: within one pass every update_quotes call, for every option, sees the
\* same values of the two flags: those the last hysteresis step left, both
\* false before any step; the flags are written only in the hysteresis step,
\* which follows the pass's hedge.
C21_QuotesSeeLastStepFlags ==
  [][ /\ ( \/ force_delta_increase' # force_delta_increase
           \/ force_delta_decrease' # force_delta_decrease ) =>
           (pc = "hyst" /\ lastHedge.valid /\ lastHyst'.valid)
      /\ quotes' = quotes + 1 =>
           /\ lastQuote'.valid
           /\ lastQuote'.fdi = force_delta_increase
           /\ lastQuote'.fdd = force_delta_decrease
           /\ lastQuote.valid =>
                /\ lastQuote'.fdi = lastQuote.fdi
                /\ lastQuote'.fdd = lastQuote.fdd
           /\ ~lastHyst.valid => (~lastQuote'.fdi /\ ~lastQuote'.fdd) ]_vars

\* C21 witness: in a pass after a step that set force_delta_decrease, the
\* last option has been quoted and its call saw the flag set.
C21_Witness ==
  /\ lastHyst.valid /\ lastHyst.P <= -THRESHOLD
  /\ lastQuote.valid /\ lastQuote.idx = NumOptions
  /\ lastQuote.fdd /\ ~lastQuote.fdi
  /\ force_delta_decrease

\* ------------------------------------------- properties of LimitSpec
\* C13: for all positive arguments limit_maker_man(strike, underlying) is
\* round(100 * min / max): the same with the arguments swapped, within
\* [0, 100], 100 when they are equal, and 25 for (25, 100) and (100, 25).
C13_LimitIsRoundedRatio ==
  limit_call.returned =>
    LET s == limit_call.strike
        u == limit_call.stock_value
        r == limit_call.option_limit
    IN  /\ r = RoundHalfEven(100 * Min(s, u), IF s >= u THEN s ELSE u)
        /\ r = limit_maker_man(u, s)
        /\ r >= 0 /\ r <= 100
        /\ s = u => r = 100
        /\ ((s = 25 /\ u = 100) \/ (s = 100 /\ u = 25)) => r = 25

\* C13 witness: the call limit_maker_man(100, 25), whose strike is the larger
\* argument, has returned 25.
C13_Witness ==
  /\ limit_call.returned
  /\ limit_call.strike = 100
  /\ limit_call.stock_value = 25
  /\ limit_call.option_limit = 25

\* ------------------------------------------- properties of QuoteSpec
\* C17: of two consecutive update_quotes calls on the same option with no
\* fill between them, the same position limit and no flag set, the second
\* cancels what the first inserted and, on each side where an order was
\* cancelled, inserts one at least as large: base_volume larger, or of the
\* size of the headroom once that is reached.
C17_ReplacedSizeGrows ==
  [][ ( /\ lastQuote.valid
        /\ quotes' = quotes + 1
        /\ lastQuote'.idx = lastQuote.idx
        /\ lastQuote'.position_limit = lastQuote.position_limit
        /\ ~force_delta_increase /\ ~force_delta_decrease ) =>
      LET old_bid == IF lastQuote.bid_inserted THEN lastQuote.bid_volume ELSE 0
          old_ask == IF lastQuote.ask_inserted THEN lastQuote.ask_volume ELSE 0
          new_bid == IF lastQuote'.bid_inserted THEN lastQuote'.bid_volume ELSE 0
          new_ask == IF lastQuote'.ask_inserted THEN lastQuote'.ask_volume ELSE 0
          max_buy == lastQuote'.position_limit - lastQuote'.position
          max_sell == lastQuote'.position_limit + lastQuote'.position
      IN  /\ lastQuote'.old_bid_volume = old_bid
          /\ lastQuote'.old_ask_volume = old_ask
          /\ new_bid >= old_bid
          /\ new_ask >= old_ask
          /\ old_bid > 0 => new_bid = Min(old_bid + BASE_VOLUME, max_buy)
          /\ old_ask > 0 => new_ask = Min(old_ask + BASE_VOLUME, max_sell) ]_vars

\* C17 witness: a call has replaced a bid that had reached the headroom by one
\* of the same size, and an ask by one that is base_volume larger.
C17_Witness ==
  /\ lastQuote.valid /\ ~lastQuote.fdi /\ ~lastQuote.fdd
  /\ lastQuote.bid_inserted /\ lastQuote.ask_inserted
  /\ lastQuote.old_bid_volume > BASE_VOLUME
  /\ lastQuote.bid_volume = lastQuote.old_bid_volume
  /\ lastQuote.bid_volume = lastQuote.position_limit - lastQuote.position
  /\ lastQuote.old_ask_volume > 0
  /\ lastQuote.ask_volume = lastQuote.old_ask_volume + BASE_VOLUME

\* C19: whatever the two flags are, update_quotes inserts no ask of a call
\* and no bid of a put when force_delta_increase is true, no bid of a call and
\* no ask of a put when force_delta_decrease is true, and whether the other
\* side of the quote is inserted does not depend on the flag.
C19_SuppressionBySide ==
  lastQuote.valid =>
    LET bid_ok == bid_allowed(lastQuote.position, lastQuote.bid_volume,
                              BASE_VOLUME, lastQuote.position_limit)
        ask_ok == ask_allowed(lastQuote.position, lastQuote.ask_volume,
                              BASE_VOLUME, lastQuote.position_limit)
    IN  /\ lastQuote.callput = "call" =>
             /\ lastQuote.fdi => ~lastQuote.ask_inserted
             /\ lastQuote.fdd => ~lastQuote.bid_inserted
             /\ lastQuote.bid_inserted = (bid_ok /\ ~lastQuote.fdd)
             /\ lastQuote.ask_inserted = (ask_ok /\ ~lastQuote.fdi)
        /\ lastQuote.callput = "put" =>
             /\ lastQuote.fdi => ~lastQuote.bid_inserted
             /\ lastQuote.fdd => ~lastQuote.ask_inserted
             /\ lastQuote.bid_inserted = (bid_ok /\ ~lastQuote.fdi)
             /\ lastQuote.ask_inserted = (ask_ok /\ ~lastQuote.fdd)

\* C19 witness: with force_delta_increase alone set, a call whose two sides
\* pass the volume and limit tests gets its bid and no ask.
C19_Witness ==
  /\ lastQuote.valid /\ lastQuote.callput = "call"
  /\ lastQuote.fdi /\ ~lastQuote.fdd
  /\ ask_allowed(lastQuote.position, lastQuote.ask_volume, BASE_VOLUME,
                 lastQuote.position_limit)
  /\ lastQuote.bid_inserted
  /\ ~lastQuote.ask_inserted

====
